---------------------------- MODULE Spec2Model ----------------------------
(***************************************************************************)
(* A model of coverage/tracer.c: the C trace function of coverage.py.      *)
(*                                                                         *)
(* Every Tracer object is modelled with the fields of the C struct         *)
(* (started, depth, tracenames, tracenames_alloc, should_trace_cache,      *)
(* data); the interpreter's single trace slot set by PyEval_SetTrace is    *)
(* the variable hook.  The interpreter calls Tracer_trace only for the     *)
(* object that is in its trace slot, so an event reaches a Tracer only     *)
(* while that Tracer is the registered hook.                               *)
(*                                                                         *)
(* Python objects are records [kind, val].  A slot of tracenames that the  *)
(* code never wrote holds Uninit: PyMem_Malloc and PyMem_Realloc do not    *)
(* clear memory, so reading such a slot yields any pointer value.  An      *)
(* entry above depth keeps the pointer a returned frame left in it.        *)
(* Reference counts (Py_INCREF, Py_DECREF) are not modelled, and of the    *)
(* allocations only PyMem_Realloc, whose failure the code handles, fails.  *)
(*                                                                         *)
(* Tracer_dealloc is modelled statement by statement, its position in pc,  *)
(* since the objects it releases may run code between its statements.      *)
(*                                                                         *)
(* The variables asks, frames, opened and last are history variables: they *)
(* record what the handler was asked and what it answered, and the code    *)
(* never reads them.  The variable stack is the call stack of the program  *)
(* the interpreter runs; only the specification of the host changes it.    *)
(***************************************************************************)
EXTENDS Integers, Sequences, FiniteSets, TLC

VARIABLES
    started,             \* Tracer.started
    depth,               \* Tracer.depth: index of the last-used tracenames entry
    tracenames,          \* Tracer.tracenames: the PyMem_Malloc'ed array
    tracenames_alloc,    \* Tracer.tracenames_alloc: number of entries of the array
    should_trace_cache,  \* Tracer.should_trace_cache: dict filename -> object
    data,                \* Tracer.data: the keys (tracename, lineno) of the dict
    should_trace,        \* Tracer.should_trace: the outcomes the callable may have
    hook,                \* the interpreter's trace slot (PyEval_SetTrace)
    asks,                \* history: the outcomes of the calls of should_trace, per filename
    frames,              \* history: for each entry 0..depth, the filename of the CALL
                         \* that stored it (NoFile when that CALL stored nothing)
    opened,              \* history: the number of CALLs not yet matched by a RETURN,
                         \* or Broken once the events were not properly nested or failed
    last,                \* history: the last operation and what it returned
    pc,                  \* the position of Tracer_dealloc in each Tracer
    stack                \* the host: the filenames of the frames of the running
                         \* program, the executing one last

vars == <<started, depth, tracenames, tracenames_alloc, should_trace_cache,
          data, should_trace, hook, asks, frames, opened, last, pc, stack>>

tracerVars == <<depth, tracenames, tracenames_alloc, should_trace_cache, data>>

--------------------------------------------------------------------------
(* Bounds of the model. *)

\* Calls are delivered only while depth + 1 < MaxDepth.
MaxDepth == 3

\* The calls of a deep session are delivered only while depth + 1 < MaxDeep.
MaxDeep == 7

\* The handler has room for this many calls of itself on the C stack.
MaxNesting == 3

\* should_trace raises at most this many times in the life of one Tracer.
MaxDecisionFailures == 1

--------------------------------------------------------------------------
(* Program constants. *)

\* #define TRACENAMES_DELTA 100.  The growth step is scaled down to 2 so that
\* a call depth within MaxDepth crosses it; the code compares depth with
\* tracenames_alloc and adds TRACENAMES_DELTA, whatever its value.
TRACENAMES_DELTA == 2

\* The filename that marks a frame of pyexpat: "pyexpat.c".
Marker == <<"p", "y", "e", "x", "p", "a", "t", ".", "c">>

--------------------------------------------------------------------------
(* The objects of the model. *)

Tracers == {"A", "B"}

NoHook == "none"

\* frame->f_code->co_filename, as sequences of characters.
File_a == <<"a", ".", "p", "y">>
File_lib == <<"l", "/", "p", "y", "e", "x", "p", "a", "t", ".", "c", "2">>

\* Filenames of frames that only raise: the marker itself, the marker in
\* capitals, and the marker without its last character.
File_exact == <<"p", "y", "e", "x", "p", "a", "t", ".", "c">>
File_upper == <<"P", "Y", "E", "X", "P", "A", "T", ".", "C">>
File_short == <<"p", "y", "e", "x", "p", "a", "t", ".">>

RaisingFilenames == {File_exact, File_upper, File_short}

Filenames == {File_a, File_lib}

NoFile == <<>>

Broken == -1

\* frame->f_lineno
Lines == {10}

NULL == [kind |-> "null", val |-> "NULL"]

Uninit == [kind |-> "uninit", val |-> "?"]

PyStr(s) == [kind |-> "str", val |-> s]

Py_None == [kind |-> "none", val |-> "None"]

PyInt_1 == [kind |-> "int", val |-> "1"]

\* What a should_trace may return: a filename string, the empty string, a
\* non-string true value, None.
Objects == {PyStr("a.py"), PyStr(""), PyInt_1, Py_None}

\* should_trace raises an exception: PyObject_Call returns NULL.
Raises == [kind |-> "raise", val |-> "NULL"]

\* A pointer that is not NULL and refers to none of the Objects.
Garbage == [kind |-> "garbage", val |-> "?"]

\* What a read of memory that was never written may yield: the code only
\* tests such a pointer against NULL.
AnyPointer == {NULL, Garbage}


--------------------------------------------------------------------------
(* The pieces of Tracer_trace, as operators. *)

\* strstr(haystack, needle) != NULL
StrStr(haystack, needle) ==
    \E i \in 0..(Len(haystack) - Len(needle)) :
        SubSeq(haystack, i + 1, i + Len(needle)) = needle

\* Mutant of IsPyexpat: the last character of the marker is not searched.
IsPyexpat_Short(filename) == StrStr(filename, SubSeq(Marker, 1, Len(Marker) - 1))

\* Mutant of IsPyexpat: the filename is compared with the marker, not searched.
IsPyexpat_Equal(filename) == filename = Marker

\* strstr(PyString_AS_STRING(frame->f_code->co_filename), "pyexpat.c")
IsPyexpat(filename) == StrStr(filename, Marker)

PyString_Check(o) == o.kind = "str"

\* PyMem_Malloc(n * sizeof(PyObject *)): n entries, not cleared.
PyMem_Malloc(n) == [i \in 0..(n - 1) |-> Uninit]

\* PyMem_Realloc(array, n * sizeof(PyObject *)) when it succeeds: the old
\* entries are kept, the new ones are not cleared.
PyMem_Realloc(array, n) ==
    [i \in 0..(n - 1) |-> IF i \in DOMAIN array THEN array[i] ELSE Uninit]

\* Mutant of Outgrown: an off-by-one in the test of the CALL case.
Outgrown_Late(d, alloc) == d > alloc

\* if (self->depth >= self->tracenames_alloc)
Outgrown(d, alloc) == d >= alloc

\* int bigger = self->tracenames_alloc + TRACENAMES_DELTA;
Bigger(alloc) == alloc + TRACENAMES_DELTA

\* Mutant of SlotFor: the CALL case tests the truth of the object, not its type.
SlotFor_Truthy(tracename) ==
    IF tracename \notin {Py_None, PyStr("")} THEN tracename ELSE NULL

\* Mutant of SlotFor: the CALL case stores the object without PyString_Check.
SlotFor_Unchecked(tracename) == tracename

\* What the CALL case stores in tracenames[depth] for the object tracename.
SlotFor(tracename) == IF PyString_Check(tracename) THEN tracename ELSE NULL

\* Mutant of ReturnDepth: the RETURN case does not test the depth.
ReturnDepth_Unguarded(d) == d - 1

\* Mutant of ReturnDepth: an off-by-one in the guard of the RETURN case.
ReturnDepth_KeepsOutermost(d) == IF d > 0 THEN d - 1 ELSE d

\* The RETURN case: if (self->depth >= 0) { ...; self->depth--; }
ReturnDepth(d) == IF d >= 0 THEN d - 1 ELSE d

\* The values a read of an entry may yield.
Read(entry) == IF entry = Uninit THEN AnyPointer ELSE {entry}

\* Mutant of LineKeys: the LINE case does not test the entry against NULL.
LineKeys_Unchecked(d, p, lineno) == IF d >= 0 THEN {<<p, lineno>>} ELSE {}

\* The LINE case: the keys it sets in self->data when the entry at depth d
\* reads as the pointer p.
LineKeys(d, p, lineno) == IF d >= 0 /\ p # NULL THEN {<<p, lineno>>} ELSE {}

\* Mutant of AfterAllocFailure: the failure path forgets self->depth--.
AfterAllocFailure_NoRollback(d) == d

\* The depth the CALL case leaves when PyMem_Realloc returns NULL at the
\* incremented depth d: self->depth--; return -1;
AfterAllocFailure(d) == d - 1

\* Mutant of AfterRaise: the failure path rolls the depth back.
AfterRaise_RolledBack(d) == d - 1

\* The depth the CALL case leaves when should_trace raises at the incremented
\* depth d: return -1;
AfterRaise(d) == d

\* Mutant of StopDeregisters: Tracer_stop does not test self->started.
StopDeregisters_Always(isStarted) == TRUE

\* Tracer_stop: if (self->started)
StopDeregisters(isStarted) == isStarted

\* Tracer_start: PyEval_SetTrace((Py_tracefunc)Tracer_trace, (PyObject*)self)
StartRegisters(self) == self

\* Mutant of PyDict_GetItem: a cached None is taken for a missing key.
PyDict_GetItem_SkipsNone(dict, key) ==
    IF dict[key] = Py_None THEN NULL ELSE dict[key]

\* Mutant of PyDict_GetItem: the lookup never finds the key.
PyDict_GetItem_Misses(dict, key) == NULL

\* PyDict_GetItem(dict, key): NULL when the key is not in the dict.
PyDict_GetItem(dict, key) == dict[key]

\* The values of what: PyTrace_EXCEPTION is 1 and PyTrace_RETURN is 3.
PyTrace_EXCEPTION == 1

PyTrace_RETURN == 3

\* Mutant of NestedWhat: the handler calls itself with the event it was given.
NestedWhat_Same(what) == what

\* The what the handler passes to itself:
\* Tracer_trace(self, frame, PyTrace_RETURN, arg)
NestedWhat(what) == PyTrace_RETURN

\* if (what == PyTrace_EXCEPTION) if (strstr(..., "pyexpat.c")), with room
\* left on the C stack for one more call.
CallsItself(what, filename, room) ==
    what = PyTrace_EXCEPTION /\ IsPyexpat(filename) /\ room > 0

\* The number of calls the handler makes of itself, directly or not, when it
\* is called with what.
RECURSIVE NestedCalls(_, _, _)
NestedCalls(what, filename, room) ==
    IF CallsItself(what, filename, room)
    THEN 1 + NestedCalls(NestedWhat(what), filename, room - 1)
    ELSE 0

\* The depth the handler leaves when it is called with what, a RETURN or an
\* EXCEPTION, at the depth d: the switch, then the call of itself.
RECURSIVE DepthAfter(_, _, _, _)
DepthAfter(what, filename, d, room) ==
    LET switched == IF what = PyTrace_RETURN THEN ReturnDepth(d) ELSE d
    IN IF CallsItself(what, filename, room)
       THEN DepthAfter(NestedWhat(what), filename, switched, room - 1)
       ELSE switched

\* The history of the entries 0..d, after a RETURN left the depth at d.
Truncate(owners, d) == SubSeq(owners, 1, IF d + 1 < Len(owners) THEN d + 1 ELSE Len(owners))

\* The history of open calls after a CALL that succeeded, and after a RETURN.
OpenedAfterCall(n) == IF n = Broken THEN Broken ELSE n + 1

OpenedAfterReturn(n) == IF n >= 1 THEN n - 1 ELSE Broken

\* The number of times should_trace has raised for the Tracer t.
Failures(t) ==
    LET raised(f) == Len(SelectSeq(asks[t][f], LAMBDA o : o = "raised"))
        Sum[S \in SUBSET Filenames] ==
            IF S = {} THEN 0
            ELSE LET f == CHOOSE x \in S : TRUE IN raised(f) + Sum[S \ {f}]
    IN Sum[Filenames]

Event(op, t, filename, lineno, ret, fail, nested) ==
    [op |-> op, self |-> t, unit |-> filename, lineno |-> lineno, ret |-> ret,
     fail |-> fail, nested |-> nested, d0 |-> depth[t]]

--------------------------------------------------------------------------
(* Tracer_init, for every Tracer; should_trace, data and should_trace_cache
   are then set by the caller: two empty dicts, and a should_trace that
   returns a string, the empty string or None, or raises. *)
Init ==
    /\ started = [t \in Tracers |-> FALSE]
    /\ depth = [t \in Tracers |-> -1]
    /\ tracenames = [t \in Tracers |-> PyMem_Malloc(TRACENAMES_DELTA)]
    /\ tracenames_alloc = [t \in Tracers |-> TRACENAMES_DELTA]
    /\ should_trace_cache = [t \in Tracers |-> [f \in Filenames |-> NULL]]
    /\ data = [t \in Tracers |-> {}]
    /\ should_trace = [t \in Tracers |-> {PyStr("a.py"), PyStr(""), Py_None, Raises}]
    /\ hook = NoHook
    /\ asks = [t \in Tracers |-> [f \in Filenames |-> <<>>]]
    /\ frames = [t \in Tracers |-> <<>>]
    /\ opened = [t \in Tracers |-> 0]
    /\ last = [op |-> "init", self |-> NoHook, unit |-> NoFile, lineno |-> 0,
               ret |-> 0, fail |-> "none", nested |-> 0, d0 |-> -1]
    /\ pc = [t \in Tracers |-> "live"]
    /\ stack = <<>>

(* Tracer_trace(self, frame, PyTrace_CALL, arg) with
   frame->f_code->co_filename = filename, delivered while the depth it leads
   to is below limit. *)
CallWithin(t, filename, limit) ==
    /\ hook = t
    /\ depth[t] + 1 < limit
    /\ LET d == depth[t] + 1
           grow == Outgrown(d, tracenames_alloc[t])
           cached == PyDict_GetItem(should_trace_cache[t], filename)
           \* the array and its size once PyMem_Realloc, if needed, succeeded
           alloc == IF grow THEN Bigger(tracenames_alloc[t]) ELSE tracenames_alloc[t]
           array == IF grow THEN PyMem_Realloc(tracenames[t], alloc) ELSE tracenames[t]
       IN
       \/ \* PyMem_Realloc returns NULL: self->depth--; return -1;
          /\ grow
          /\ depth' = [depth EXCEPT ![t] = AfterAllocFailure(d)]
          /\ UNCHANGED <<tracenames, tracenames_alloc, should_trace_cache,
                         data, asks, frames>>
          /\ opened' = [opened EXCEPT ![t] = Broken]
          /\ last' = Event("call", t, filename, 0, -1, "alloc", 0)
       \/ \* the array is big enough, or PyMem_Realloc succeeds
          /\ tracenames_alloc' = [tracenames_alloc EXCEPT ![t] = alloc]
          /\ UNCHANGED data
          /\ \/ \* PyDict_GetItem finds the filename in should_trace_cache
                /\ cached # NULL
                /\ depth' = [depth EXCEPT ![t] = d]
                /\ tracenames' = [tracenames EXCEPT ![t] =
                                     [array EXCEPT ![d] = SlotFor(cached)]]
                /\ UNCHANGED <<should_trace_cache, asks>>
                /\ frames' = [frames EXCEPT ![t] = Append(@, filename)]
                /\ opened' = [opened EXCEPT ![t] = OpenedAfterCall(@)]
                /\ last' = Event("call", t, filename, 0, 0, "none", 0)
             \/ \* a miss, and should_trace returns the object tracename
                /\ cached = NULL
                /\ depth' = [depth EXCEPT ![t] = d]
                /\ \E tracename \in should_trace[t] \ {Raises} :
                      /\ should_trace_cache' =
                            [should_trace_cache EXCEPT ![t][filename] = tracename]
                      /\ tracenames' = [tracenames EXCEPT ![t] =
                                           [array EXCEPT ![d] = SlotFor(tracename)]]
                /\ asks' = [asks EXCEPT ![t][filename] = Append(@, "returned")]
                /\ frames' = [frames EXCEPT ![t] = Append(@, filename)]
                /\ opened' = [opened EXCEPT ![t] = OpenedAfterCall(@)]
                /\ last' = Event("call", t, filename, 0, 0, "none", 0)
             \/ \* a miss, and should_trace raises: return -1;
                /\ cached = NULL
                /\ Raises \in should_trace[t]
                /\ Failures(t) < MaxDecisionFailures
                /\ depth' = [depth EXCEPT ![t] = AfterRaise(d)]
                /\ tracenames' = [tracenames EXCEPT ![t] = array]
                /\ UNCHANGED should_trace_cache
                /\ asks' = [asks EXCEPT ![t][filename] = Append(@, "raised")]
                /\ frames' = [frames EXCEPT ![t] = Append(@, NoFile)]
                /\ opened' = [opened EXCEPT ![t] = Broken]
                /\ last' = Event("call", t, filename, 0, -1, "decision", 0)
    /\ UNCHANGED <<started, hook, should_trace, pc>>

\* A CALL event of a session that nests its calls below MaxDepth.
Call(t, filename) == CallWithin(t, filename, MaxDepth)

(* Tracer_trace(self, frame, PyTrace_RETURN, arg) *)
Return(t) ==
    /\ hook = t
    /\ depth' = [depth EXCEPT ![t] = ReturnDepth(@)]
    /\ frames' = [frames EXCEPT ![t] = Truncate(@, depth'[t])]
    /\ opened' = [opened EXCEPT ![t] = OpenedAfterReturn(@)]
    /\ last' = Event("return", t, NoFile, 0, 0, "none", 0)
    /\ UNCHANGED <<started, hook, tracenames, tracenames_alloc,
                   should_trace_cache, data, should_trace, pc, asks>>

(* Tracer_trace(self, frame, PyTrace_LINE, arg) with frame->f_lineno = lineno *)
Line(t, lineno) ==
    /\ hook = t
    /\ \E p \in (IF depth[t] >= 0 THEN Read(tracenames[t][depth[t]]) ELSE {NULL}) :
          data' = [data EXCEPT ![t] = @ \cup LineKeys(depth[t], p, lineno)]
    /\ last' = Event("line", t, NoFile, lineno, 0, "none", 0)
    /\ UNCHANGED <<started, hook, depth, tracenames, tracenames_alloc,
                   should_trace_cache, should_trace, pc, asks, frames, opened>>

(* Tracer_trace(self, frame, PyTrace_EXCEPTION, arg) with
   frame->f_code->co_filename = filename: for a pyexpat frame the handler calls
   itself with PyTrace_RETURN. *)
Exception(t, filename) ==
    /\ hook = t
    /\ depth' = [depth EXCEPT ![t] =
                    DepthAfter(PyTrace_EXCEPTION, filename, @, MaxNesting)]
    /\ last' = Event("exception", t, filename, 0, 0, "none",
                     NestedCalls(PyTrace_EXCEPTION, filename, MaxNesting))
    /\ frames' = [frames EXCEPT ![t] = Truncate(@, depth'[t])]
    /\ opened' = [opened EXCEPT ![t] = Broken]
    /\ UNCHANGED <<started, hook, tracenames, tracenames_alloc,
                   should_trace_cache, data, should_trace, pc, asks>>

(* Tracer_start *)
Start(t) ==
    /\ hook' = StartRegisters(t)
    /\ started' = [started EXCEPT ![t] = TRUE]
    /\ last' = Event("start", t, NoFile, 0, 0, "none", 0)
    /\ UNCHANGED <<tracerVars, should_trace, pc, asks, frames, opened>>

(* Tracer_stop *)
Stop(t) ==
    /\ IF StopDeregisters(started[t])
       THEN /\ hook' = NoHook
            /\ started' = [started EXCEPT ![t] = FALSE]
       ELSE UNCHANGED <<hook, started>>
    /\ last' = Event("stop", t, NoFile, 0, 0, "none", 0)
    /\ UNCHANGED <<tracerVars, should_trace, pc, asks, frames, opened>>

\* Mutant of DeallocDeregisters: Tracer_dealloc leaves the trace slot alone.
DeallocDeregisters_Never(isStarted) == FALSE

\* Tracer_dealloc: if (self->started)
DeallocDeregisters(isStarted) == isStarted

(* Tracer_dealloc, its first statement: if (self->started)
   PyEval_SetTrace(NULL, NULL).  The started flag is not reset. *)
Dealloc_SetTrace(t) ==
    /\ pc[t] = "live"
    /\ pc' = [pc EXCEPT ![t] = "deregistered"]
    /\ hook' = IF DeallocDeregisters(started[t]) THEN NoHook ELSE hook
    /\ last' = Event("dealloc", t, NoFile, 0, 0, "none", 0)
    /\ UNCHANGED <<started, tracerVars, should_trace, asks, frames, opened>>

(* Tracer_dealloc: Py_XDECREF of should_trace, data and should_trace_cache.
   The objects they release may run code, which the interpreter traces with
   the handler then in its trace slot. *)
Dealloc_Decref(t) ==
    /\ pc[t] = "deregistered"
    /\ pc' = [pc EXCEPT ![t] = "released"]
    /\ last' = Event("dealloc", t, NoFile, 0, 0, "none", 0)
    /\ UNCHANGED <<started, hook, tracerVars, should_trace, asks, frames, opened>>

(* Tracer_dealloc: one turn of while (self->depth >= 0) { Py_XDECREF(...);
   self->depth--; }, or its exit, PyMem_Free(self->tracenames) and tp_free. *)
Dealloc_Loop(t) ==
    /\ pc[t] = "released"
    /\ IF depth[t] >= 0
       THEN /\ depth' = [depth EXCEPT ![t] = @ - 1]
            /\ UNCHANGED pc
       ELSE /\ pc' = [pc EXCEPT ![t] = "freed"]
            /\ UNCHANGED depth
    /\ frames' = [frames EXCEPT ![t] = Truncate(@, depth'[t])]
    /\ opened' = [opened EXCEPT ![t] = Broken]
    /\ last' = Event("dealloc", t, NoFile, 0, 0, "none", 0)
    /\ UNCHANGED <<started, hook, tracenames, tracenames_alloc,
                   should_trace_cache, data, should_trace, asks>>

\* The operations on the Tracers ts, with frames of the files fs.
Step(ts, fs) ==
    \/ \E t \in ts, f \in fs : Call(t, f) /\ UNCHANGED stack
    \/ \E t \in ts : Return(t) /\ UNCHANGED stack
    \/ \E t \in ts, l \in Lines : Line(t, l) /\ UNCHANGED stack
    \/ \E t \in ts, f \in fs : Exception(t, f) /\ UNCHANGED stack
    \/ \E t \in ts : Start(t) /\ UNCHANGED stack
    \/ \E t \in ts : Stop(t) /\ UNCHANGED stack

\* One tracing session: one Tracer, any should_trace.
Next == Step({"A"}, Filenames)

Spec == Init /\ [][Next]_vars

\* Two Tracers and one trace slot; should_trace of both always returns "a.py".
InitTwo ==
    /\ started = [t \in Tracers |-> FALSE]
    /\ depth = [t \in Tracers |-> -1]
    /\ tracenames = [t \in Tracers |-> PyMem_Malloc(TRACENAMES_DELTA)]
    /\ tracenames_alloc = [t \in Tracers |-> TRACENAMES_DELTA]
    /\ should_trace_cache = [t \in Tracers |-> [f \in Filenames |-> NULL]]
    /\ data = [t \in Tracers |-> {}]
    /\ should_trace = [t \in Tracers |-> {PyStr("a.py")}]
    /\ hook = NoHook
    /\ asks = [t \in Tracers |-> [f \in Filenames |-> <<>>]]
    /\ frames = [t \in Tracers |-> <<>>]
    /\ opened = [t \in Tracers |-> 0]
    /\ last = [op |-> "init", self |-> NoHook, unit |-> NoFile, lineno |-> 0,
               ret |-> 0, fail |-> "none", nested |-> 0, d0 |-> -1]
    /\ pc = [t \in Tracers |-> "live"]
    /\ stack = <<>>

NextTwo == Step(Tracers, {File_a})

SpecTwo == InitTwo /\ [][NextTwo]_vars

\* One Tracer whose should_trace may return any of the Objects, a non-string
\* true value among them, and never raises.
InitObjects ==
    /\ started = [t \in Tracers |-> FALSE]
    /\ depth = [t \in Tracers |-> -1]
    /\ tracenames = [t \in Tracers |-> PyMem_Malloc(TRACENAMES_DELTA)]
    /\ tracenames_alloc = [t \in Tracers |-> TRACENAMES_DELTA]
    /\ should_trace_cache = [t \in Tracers |-> [f \in Filenames |-> NULL]]
    /\ data = [t \in Tracers |-> {}]
    /\ should_trace = [t \in Tracers |-> Objects]
    /\ hook = NoHook
    /\ asks = [t \in Tracers |-> [f \in Filenames |-> <<>>]]
    /\ frames = [t \in Tracers |-> <<>>]
    /\ opened = [t \in Tracers |-> 0]
    /\ last = [op |-> "init", self |-> NoHook, unit |-> NoFile, lineno |-> 0,
               ret |-> 0, fail |-> "none", nested |-> 0, d0 |-> -1]
    /\ pc = [t \in Tracers |-> "live"]
    /\ stack = <<>>

SpecObjects == InitObjects /\ [][Next]_vars

\* One Tracer in a session whose calls nest deep enough for tracenames to grow
\* more than once; should_trace returns a string or None.
InitDeep ==
    /\ started = [t \in Tracers |-> FALSE]
    /\ depth = [t \in Tracers |-> -1]
    /\ tracenames = [t \in Tracers |-> PyMem_Malloc(TRACENAMES_DELTA)]
    /\ tracenames_alloc = [t \in Tracers |-> TRACENAMES_DELTA]
    /\ should_trace_cache = [t \in Tracers |-> [f \in Filenames |-> NULL]]
    /\ data = [t \in Tracers |-> {}]
    /\ should_trace = [t \in Tracers |-> {PyStr("a.py"), Py_None}]
    /\ hook = NoHook
    /\ asks = [t \in Tracers |-> [f \in Filenames |-> <<>>]]
    /\ frames = [t \in Tracers |-> <<>>]
    /\ opened = [t \in Tracers |-> 0]
    /\ last = [op |-> "init", self |-> NoHook, unit |-> NoFile, lineno |-> 0,
               ret |-> 0, fail |-> "none", nested |-> 0, d0 |-> -1]
    /\ pc = [t \in Tracers |-> "live"]
    /\ stack = <<>>

NextDeep ==
    \/ \E f \in Filenames : CallWithin("A", f, MaxDeep) /\ UNCHANGED stack
    \/ Return("A") /\ UNCHANGED stack
    \/ \E l \in Lines : Line("A", l) /\ UNCHANGED stack
    \/ \E f \in Filenames : Exception("A", f) /\ UNCHANGED stack
    \/ Start("A") /\ UNCHANGED stack
    \/ Stop("A") /\ UNCHANGED stack

SpecDeep == InitDeep /\ [][NextDeep]_vars

\* One tracing session, with a should_trace that never raises, in which
\* frames of other files raise exceptions as well.
NextRaising ==
    \/ \E f \in Filenames : Call("A", f) /\ UNCHANGED stack
    \/ Return("A") /\ UNCHANGED stack
    \/ \E l \in Lines : Line("A", l) /\ UNCHANGED stack
    \/ \E f \in Filenames \cup RaisingFilenames : Exception("A", f) /\ UNCHANGED stack
    \/ Start("A") /\ UNCHANGED stack
    \/ Stop("A") /\ UNCHANGED stack

SpecRaising == InitObjects /\ [][NextRaising]_vars

\* Two Tracers and one trace slot, and the destruction of the Tracers: start()
\* and stop() are called on a Tracer that is not being destroyed, the events
\* go to the handler in the trace slot.
NextDealloc ==
    \/ \E t \in Tracers : Call(t, File_a) /\ UNCHANGED stack
    \/ \E t \in Tracers : Return(t) /\ UNCHANGED stack
    \/ \E t \in Tracers, l \in Lines : Line(t, l) /\ UNCHANGED stack
    \/ \E t \in Tracers : Exception(t, File_a) /\ UNCHANGED stack
    \/ \E t \in Tracers : pc[t] = "live" /\ Start(t) /\ UNCHANGED stack
    \/ \E t \in Tracers : pc[t] = "live" /\ Stop(t) /\ UNCHANGED stack
    \/ \E t \in Tracers : Dealloc_SetTrace(t) /\ UNCHANGED stack
    \/ \E t \in Tracers : Dealloc_Decref(t) /\ UNCHANGED stack
    \/ \E t \in Tracers : Dealloc_Loop(t) /\ UNCHANGED stack

SpecDealloc == InitTwo /\ [][NextDealloc]_vars

\* The host runs a program whose calls, lines and returns are well formed, and
\* hands each event to the handler in its trace slot, if there is one: an
\* event that happens while the slot is empty reaches no Tracer.
Unseen(op) ==
    /\ hook = NoHook
    /\ last' = [op |-> op, self |-> NoHook, unit |-> NoFile, lineno |-> 0,
                ret |-> 0, fail |-> "none", nested |-> 0, d0 |-> -1]
    /\ UNCHANGED <<started, tracerVars, should_trace, hook, asks, frames,
                   opened, pc>>

\* The program calls a function of the file filename; the frame is not run
\* when the handler returns -1.
HostCall(filename) ==
    /\ Len(stack) < MaxDepth
    /\ \/ Unseen("call")
       \/ Call("A", filename)
    /\ stack' = IF last'.ret = 0 THEN Append(stack, filename) ELSE stack

\* The executing frame returns.
HostReturn ==
    /\ stack # <<>>
    /\ stack' = SubSeq(stack, 1, Len(stack) - 1)
    /\ \/ Unseen("return")
       \/ Return("A")

\* The executing frame runs the line lineno.
HostLine(lineno) ==
    /\ stack # <<>>
    /\ UNCHANGED stack
    /\ \/ Unseen("line")
       \/ Line("A", lineno)

\* One Tracer under a well-formed host: the program calls start() and stop()
\* in any of its frames.
NextHost ==
    \/ \E f \in Filenames : HostCall(f)
    \/ HostReturn
    \/ \E l \in Lines : HostLine(l)
    \/ Start("A") /\ UNCHANGED stack
    \/ Stop("A") /\ UNCHANGED stack

SpecHost == InitDeep /\ [][NextHost]_vars

--------------------------------------------------------------------------
(* C1.  Balance. *)

\* C1: as long as the CALL and RETURN events delivered to a fresh Tracer are
\* properly nested (LINE events in between, no EXCEPTION event), should_trace
\* never raised and no allocation failed, the depth is the number of CALLs
\* not yet matched by a RETURN, minus one: it is -1, and no entry of
\* tracenames is in use, whenever every CALL has been matched, and the depth
\* after a matched CALL ... RETURN block is the depth before it.
C1_Balance ==
    \A t \in Tracers :
        opened[t] # Broken =>
            /\ depth[t] = opened[t] - 1
            /\ Len(frames[t]) = opened[t]
            /\ opened[t] = 0 => depth[t] = -1

\* A properly nested sequence that reached depth 2 (the array grew), recorded
\* a line and returned from every call.
C1_Witness ==
    /\ last.op = "return"
    /\ opened["A"] = 0
    /\ depth["A"] = -1
    /\ tracenames_alloc["A"] > TRACENAMES_DELTA
    /\ data["A"] # {}

--------------------------------------------------------------------------
(* C2.  Memoization. *)

\* C2 as stated: should_trace is called at most once for each filename, for
\* any sequence of events.
C2_AtMostOnce ==
    \A t \in Tracers, f \in Filenames : Len(asks[t][f]) <= 1

\* C2, amended: should_trace returns a result at most once for each filename,
\* and is not called again for a filename once it has returned a result for
\* it (the filename is then in should_trace_cache, and a CALL that finds it
\* there makes no call of should_trace); a call of should_trace that raises
\* stores nothing, so the next CALL of that filename calls it again.
C2_Memoized ==
    \A t \in Tracers, f \in Filenames :
        LET a == asks[t][f] IN
        /\ \A i \in 1..Len(a) : a[i] = "returned" => i = Len(a)
        /\ should_trace_cache[t][f] # NULL <=> (a # <<>> /\ a[Len(a)] = "returned")

\* should_trace raised, then returned a result for a filename, and a later
\* CALL of the same filename found it in the cache.
C2_Witness ==
    \E f \in Filenames :
        /\ asks["A"][f] = <<"raised", "returned">>
        /\ frames["A"] = <<f, f>>
        /\ last.op = "call" /\ last.unit = f /\ last.ret = 0

--------------------------------------------------------------------------
(* C3.  Hit recording. *)

\* C3: a LINE event with line number l processed at depth d >= 0 whose entry
\* tracenames[d] is a string t leaves the key (t, l) in data; a LINE event
\* processed at depth -1, or at an entry that is NULL, leaves data unchanged.
C3_HitRecording ==
    [][\A t \in Tracers :
          (last'.op = "line" /\ last'.self = t) =>
              LET d == depth[t] IN
              /\ (d >= 0 /\ PyString_Check(tracenames[t][d]))
                     => <<tracenames[t][d], last'.lineno>> \in data'[t]
              /\ (d = -1 \/ (d >= 0 /\ tracenames[t][d] = NULL))
                     => data' = data]_vars

\* A LINE event in a traced frame called from a frame that is not traced: the
\* key of the traced file is in data.
C3_Witness ==
    /\ last.op = "line"
    /\ depth["A"] = 1
    /\ tracenames["A"][0] = NULL
    /\ PyString_Check(tracenames["A"][1])
    /\ data["A"] = {<<tracenames["A"][1], last.lineno>>}

--------------------------------------------------------------------------
(* C4.  Anomaly recovery. *)

\* The filename has "pyexpat.c" somewhere in it.
ContainsMarker(filename) ==
    \E i \in 1..Len(filename) : \E j \in i..Len(filename) :
        SubSeq(filename, i, j) = Marker

\* C4: when a CALL event for a filename that contains "pyexpat.c" has put the
\* frame on the stack (the array did not fail to grow) and the next event is
\* an EXCEPTION event for that frame, the depth after the EXCEPTION is the
\* depth before the CALL, the handler having called itself once with RETURN;
\* from depth -1, CALL then EXCEPTION ends at depth -1.
C4_AnomalyRecovery ==
    [][\A t \in Tracers :
          ( /\ last.op = "call" /\ last.self = t /\ last.fail # "alloc"
            /\ ContainsMarker(last.unit)
            /\ last'.op = "exception" /\ last'.self = t
            /\ last'.unit = last.unit )
          => /\ depth'[t] = last.d0
             /\ last'.nested = 1
             /\ last'.ret = 0]_vars

\* The EXCEPTION event of a pyexpat frame that was called at depth -1 and whose
\* decision is in the cache: the depth is back at -1.
C4_Witness ==
    /\ last.op = "exception"
    /\ ContainsMarker(last.unit)
    /\ should_trace_cache["A"][last.unit] # NULL
    /\ last.nested = 1
    /\ last.d0 = 0
    /\ depth["A"] = -1

--------------------------------------------------------------------------
(* C5.  Skip is a no-op on results. *)

\* C5: when should_trace returned None for the filename X, no event of a
\* CALL(X) / LINE / RETURN cycle changes data: a CALL and a RETURN never do,
\* and neither does a LINE event processed while the top entry of the stack
\* is the one a CALL of X stored, on the first call of X (a miss) and on
\* every later one (a hit).
C5_SkipNoOp ==
    [][\A t \in Tracers :
          /\ (last'.self = t /\ last'.op \in {"call", "return"}) => data' = data
          /\ ( /\ last'.self = t /\ last'.op = "line"
               /\ depth[t] >= 0
               /\ frames[t][depth[t] + 1] # NoFile
               /\ should_trace_cache[t][frames[t][depth[t] + 1]] = Py_None )
             => data' = data]_vars

\* A LINE event in the second of two nested frames of a file for which
\* should_trace returned None: nothing was recorded.
C5_Witness ==
    \E f \in Filenames :
        /\ last.op = "line"
        /\ frames["A"] = <<f, f>>
        /\ asks["A"][f] = <<"returned">>
        /\ should_trace_cache["A"][f] = Py_None
        /\ data["A"] = {}

--------------------------------------------------------------------------
(* C6.  started and the trace slot. *)

\* C6: with one trace slot and several Tracers, the started flag of a Tracer
\* is true exactly when that Tracer is the handler in the trace slot.
C6_StartedIffRegistered ==
    \A t \in Tracers : started[t] <=> hook = t

--------------------------------------------------------------------------
(* C7.  stop() is safe to repeat. *)

\* C7: stop() on a Tracer whose started flag is false changes nothing: the
\* trace slot is not touched, started stays false, and depth, tracenames,
\* the cache and data are as before; stop() on a started Tracer clears the
\* trace slot and sets started to false; a stop() that follows a stop() of the
\* same Tracer changes nothing, so that any number of them end in the state
\* the first one left.
C7_StopRepeatable ==
    [][\A t \in Tracers :
          (last'.op = "stop" /\ last'.self = t) =>
              /\ tracerVars' = tracerVars
              /\ started'[t] = FALSE
              /\ \A u \in Tracers \ {t} : started'[u] = started[u]
              /\ ~started[t] => hook' = hook
              /\ started[t] => hook' = NoHook
              /\ (last.op = "stop" /\ last.self = t) =>
                     /\ hook' = hook
                     /\ started' = started]_vars

\* stop() on the Tracer A, which has frames on its stack and is not started,
\* while B is the registered handler: B is still registered.
C7_Witness ==
    /\ last.op = "stop"
    /\ last.self = "A"
    /\ depth["A"] >= 0
    /\ ~started["A"]
    /\ hook = "B"
    /\ started["B"]

--------------------------------------------------------------------------
(* C8.  should_trace raises. *)

\* C8: when should_trace raises during a CALL event for the filename u, the
\* handler returns -1, should_trace_cache is unchanged and has no entry for
\* u, data is unchanged, and the depth stays at its incremented value, the
\* depth before the event plus one.
C8_DecisionFailure ==
    [][\A t \in Tracers :
          (last'.op = "call" /\ last'.self = t /\ last'.fail = "decision") =>
              /\ last'.ret = -1
              /\ asks'[t][last'.unit] = Append(asks[t][last'.unit], "raised")
              /\ should_trace_cache' = should_trace_cache
              /\ should_trace_cache'[t][last'.unit] = NULL
              /\ data' = data
              /\ depth'[t] = depth[t] + 1]_vars

\* should_trace raised in a CALL made at depth 0 of a Tracer that has a
\* decision in its cache and a key in data.
C8_Witness ==
    /\ last.op = "call"
    /\ last.fail = "decision"
    /\ last.d0 = 0
    /\ depth["A"] = 1
    /\ \E f \in Filenames : should_trace_cache["A"][f] # NULL
    /\ data["A"] # {}

--------------------------------------------------------------------------
(* C9.  PyMem_Realloc fails. *)

\* C9: when growing tracenames fails during a CALL event, the handler returns
\* -1 and leaves the Tracer as it was before the event: the depth, every
\* entry of tracenames, tracenames_alloc, should_trace_cache and data are
\* unchanged and should_trace is not called; the events that follow are
\* therefore processed as they would have been without the failed CALL.
C9_AllocationFailure ==
    [][\A t \in Tracers :
          (last'.op = "call" /\ last'.self = t /\ last'.fail = "alloc") =>
              /\ last'.ret = -1
              /\ depth' = depth
              /\ tracenames' = tracenames
              /\ tracenames_alloc' = tracenames_alloc
              /\ should_trace_cache' = should_trace_cache
              /\ data' = data
              /\ asks' = asks
              /\ frames' = frames]_vars

\* The array could not grow in a CALL made with every entry in use.
C9_Witness ==
    /\ last.op = "call"
    /\ last.fail = "alloc"
    /\ last.ret = -1
    /\ depth["A"] = tracenames_alloc["A"] - 1
    /\ \A i \in 0..depth["A"] : frames["A"][i + 1] # NoFile

--------------------------------------------------------------------------
(* C10.  The depth never drops below -1. *)

\* C10: the depth is at least -1 in every reachable state; a RETURN event,
\* delivered by the interpreter or made by the handler for an EXCEPTION of a
\* pyexpat frame, returns 0, changes nothing (depth, tracenames, cache, data)
\* when the depth is -1, and decrements the depth by exactly one when the depth
\* is at least 0.
C10_DepthFloor ==
    /\ \A t \in Tracers : depth[t] >= -1
    /\ [][\A t \in Tracers :
             /\ depth'[t] >= -1
             /\ ( /\ last'.self = t
                  /\ \/ last'.op = "return"
                     \/ last'.op = "exception" /\ last'.nested = 1 )
                => /\ last'.ret = 0
                   /\ depth[t] = -1 => tracerVars' = tracerVars
                   /\ depth[t] >= 0 => depth'[t] = depth[t] - 1]_vars

\* A RETURN event delivered at depth -1, after calls that left decisions in
\* the cache and keys in data.
C10_Witness ==
    /\ last.op = "return"
    /\ last.d0 = -1
    /\ depth["A"] = -1
    /\ \E f \in Filenames : should_trace_cache["A"][f] # NULL
    /\ data["A"] # {}

--------------------------------------------------------------------------
(* C11.  The mapping of the result of should_trace. *)

\* The truth value of an object of the model: None and the empty string are
\* false, a non-empty string and the integer 1 are true.
Truthy(o) == o \notin {Py_None, PyStr("")}

\* A CALL event of the Tracer t that missed the cache and whose call of
\* should_trace returned; the result is then the value stored in the cache.
MissReturned(t) ==
    /\ last'.op = "call" /\ last'.self = t
    /\ asks'[t][last'.unit] = Append(asks[t][last'.unit], "returned")

\* C11 as stated: on a miss, a result of should_trace that is true (a token
\* that is neither NULL nor a false value) is stored in tracenames[depth], and
\* a false result is stored as NULL, whatever the kind of the result: string,
\* empty string, non-string true value, None.
C11_TruthMapping ==
    [][\A t \in Tracers :
          MissReturned(t) =>
              LET r == should_trace_cache'[t][last'.unit] IN
              tracenames'[t][depth'[t]] = IF Truthy(r) THEN r ELSE NULL]_vars

\* C11, amended: on a miss, a result of should_trace that is a string, the
\* empty string included, is stored in tracenames[depth], and a result that
\* is not a string, true (the integer 1) or false (None), is stored as NULL.
C11_TypeMapping ==
    [][\A t \in Tracers :
          MissReturned(t) =>
              LET r == should_trace_cache'[t][last'.unit] IN
              /\ r \in Objects
              /\ r.kind = "str" => tracenames'[t][depth'[t]] = r
              /\ r.kind # "str" => tracenames'[t][depth'[t]] = NULL]_vars

\* A frame for which should_trace returned the empty string, stored as a
\* string, and in it a frame for which should_trace returned the integer 1,
\* stored as NULL.
C11_Witness ==
    /\ last.op = "call"
    /\ depth["A"] = 1
    /\ Len(frames["A"]) = 2
    /\ frames["A"][1] # frames["A"][2]
    /\ should_trace_cache["A"][frames["A"][1]] = PyStr("")
    /\ tracenames["A"][0] = PyStr("")
    /\ should_trace_cache["A"][frames["A"][2]] = PyInt_1
    /\ tracenames["A"][1] = NULL

--------------------------------------------------------------------------
(* C12.  The stack is never truncated. *)

\* C12: in every reachable state tracenames has tracenames_alloc entries and
\* the depth is below tracenames_alloc; a CALL event that stores an entry
\* stores it at the new depth, an index of the array; tracenames_alloc changes
\* only in a CALL event made with every entry in use, by TRACENAMES_DELTA, and
\* growing the array keeps the entries below the new depth.  The calls nest
\* deep enough for the array to grow three times.
C12_NeverTruncates ==
    /\ \A t \in Tracers :
          /\ DOMAIN tracenames[t] = 0..(tracenames_alloc[t] - 1)
          /\ depth[t] < tracenames_alloc[t]
    /\ [][\A t \in Tracers :
             /\ depth'[t] < tracenames_alloc'[t]
             /\ DOMAIN tracenames'[t] = 0..(tracenames_alloc'[t] - 1)
             /\ (last'.op = "call" /\ last'.self = t /\ last'.ret = 0) =>
                    /\ depth'[t] = depth[t] + 1
                    /\ depth'[t] \in DOMAIN tracenames'[t]
                    /\ tracenames'[t][depth'[t]] \in {NULL} \cup Objects
                    /\ \A i \in 0..depth[t] : tracenames'[t][i] = tracenames[t][i]
             /\ tracenames_alloc'[t] # tracenames_alloc[t] =>
                    /\ last'.op = "call" /\ last'.self = t
                    /\ depth[t] + 1 = tracenames_alloc[t]
                    /\ tracenames_alloc'[t] = tracenames_alloc[t] + TRACENAMES_DELTA
                    /\ \A i \in 0..depth[t] : tracenames'[t][i] = tracenames[t][i]]_vars

\* A CALL event that made the array grow for the third time: every entry up
\* to the depth holds the decision of its frame.
C12_Witness ==
    /\ last.op = "call"
    /\ last.ret = 0
    /\ opened["A"] = depth["A"] + 1
    /\ depth["A"] = 3 * TRACENAMES_DELTA
    /\ last.d0 = depth["A"] - 1
    /\ tracenames_alloc["A"] = 4 * TRACENAMES_DELTA
    /\ \A i \in 0..depth["A"] :
          tracenames["A"][i] = SlotFor(should_trace_cache["A"][frames["A"][i + 1]])

--------------------------------------------------------------------------
(* C13.  should_trace_cache only grows. *)

\* The filenames whose entry in the cache of the Tracer t changes in the step.
Rewritten(t) ==
    {f \in Filenames : should_trace_cache'[t][f] # should_trace_cache[t][f]}

\* C13: in every event, a filename that is in should_trace_cache stays in it
\* with the same value; the cache changes only in a CALL event that missed
\* the cache and whose call of should_trace returned, which adds one entry,
\* for the filename of that CALL; LINE, RETURN and EXCEPTION events, start()
\* and stop(), and a CALL that found its filename or failed, leave the cache
\* unchanged.
C13_CacheMonotonic ==
    [][\A t \in Tracers :
          /\ \A f \in Filenames :
                should_trace_cache[t][f] # NULL =>
                    should_trace_cache'[t][f] = should_trace_cache[t][f]
          /\ Rewritten(t) # {} =>
                /\ last'.op = "call" /\ last'.self = t /\ last'.ret = 0
                /\ Rewritten(t) = {last'.unit}
                /\ should_trace_cache[t][last'.unit] = NULL
                /\ should_trace_cache'[t][last'.unit] \in Objects
                /\ asks'[t][last'.unit] = Append(asks[t][last'.unit], "returned")
          /\ ( /\ last'.op = "call" /\ last'.self = t /\ last'.ret = 0
               /\ should_trace_cache[t][last'.unit] = NULL )
             => Rewritten(t) = {last'.unit}
          /\ last'.op \in {"line", "return", "exception", "start", "stop"} =>
                Rewritten(t) = {}
          /\ (last'.op = "call" /\ last'.ret = -1) => Rewritten(t) = {}]_vars

\* A CALL event found None in the cache for its filename, in a frame of the
\* other file, which has its own entry, after a LINE was recorded: both
\* entries are as should_trace returned them.
C13_Witness ==
    \E f \in Filenames : \E g \in Filenames \ {f} :
        /\ last.op = "call" /\ last.unit = f /\ last.ret = 0
        /\ asks["A"][f] = <<"returned">>
        /\ asks["A"][g] = <<"raised", "returned">>
        /\ should_trace_cache["A"][f] = Py_None
        /\ PyString_Check(should_trace_cache["A"][g])
        /\ frames["A"] = <<f, g, f>>
        /\ data["A"] # {}

--------------------------------------------------------------------------
(* C14.  An EXCEPTION event of any other frame. *)

\* C14: an EXCEPTION event for a filename that has no "pyexpat.c" in it
\* ("a.py", the marker in capitals, the marker without its last character)
\* changes nothing: depth, every entry of tracenames, tracenames_alloc,
\* should_trace_cache and data are as before, the handler does not call
\* itself and returns 0; the handler calls itself with RETURN only in an
\* EXCEPTION event whose filename has "pyexpat.c" in it.
C14_OtherExceptions ==
    [][\A t \in Tracers :
          /\ ( /\ last'.op = "exception" /\ last'.self = t
               /\ ~ContainsMarker(last'.unit) )
             => /\ tracerVars' = tracerVars
                /\ last'.nested = 0
                /\ last'.ret = 0
          /\ last'.nested # 0 =>
                /\ last'.op = "exception"
                /\ ContainsMarker(last'.unit)]_vars

\* An EXCEPTION event, for the marker without its last character, processed
\* in the second frame of a stack, with a key in data: the depth is as before.
C14_Witness ==
    /\ last.op = "exception"
    /\ last.unit = File_short
    /\ last.nested = 0
    /\ last.d0 = 1
    /\ depth["A"] = 1
    /\ data["A"] # {}

--------------------------------------------------------------------------
(* C15.  The order of Tracer_dealloc. *)

\* The steps Tracer_dealloc takes, in their order.
DeallocOrder ==
    {<<"live", "deregistered">>, <<"deregistered", "released">>,
     <<"released", "freed">>}

\* C15: Tracer_dealloc of a started Tracer clears the trace slot before it
\* releases should_trace_cache and the entries of tracenames, and with
\* started false it leaves the trace slot alone; from that first step on the
\* Tracer is not in the trace slot, so that no event reaches it once anything
\* was released; the loop then releases the entries depth, depth - 1, ..., 0
\* one by one and the array is freed at depth -1.
C15_DestructionOrder ==
    /\ \A t \in Tracers :
          /\ pc[t] # "live" => hook # t
          /\ pc[t] = "freed" => depth[t] = -1
    /\ [][\A t \in Tracers :
             /\ pc'[t] # "live" => hook' # t
             /\ pc'[t] # pc[t] => <<pc[t], pc'[t]>> \in DeallocOrder
             /\ ( /\ last'.self = t
                  /\ last'.op \in {"call", "return", "line", "exception"} )
                => pc[t] = "live" /\ pc'[t] = "live"
             /\ (pc[t] = "live" /\ pc'[t] = "deregistered") =>
                    /\ started[t] => hook' = NoHook
                    /\ ~started[t] => hook' = hook
                    /\ tracerVars' = tracerVars
             /\ (pc[t] = "deregistered" /\ pc'[t] = "released") =>
                    hook # t /\ hook' = hook /\ tracerVars' = tracerVars
             /\ (pc[t] = "released" /\ last'.op = "dealloc" /\ last'.self = t) =>
                    /\ depth[t] >= 0 =>
                          depth'[t] = depth[t] - 1 /\ pc'[t] = "released"
                    /\ depth[t] = -1 => pc'[t] = "freed"
             /\ pc'[t] = "freed" => depth'[t] = -1]_vars

\* Tracer_dealloc of the Tracer A, started and in the trace slot with two
\* frames on its stack: the slot was cleared and the loop has released the
\* entry of the inner frame.
C15_Witness ==
    /\ last.op = "dealloc"
    /\ last.self = "A"
    /\ pc["A"] = "released"
    /\ last.d0 = 1
    /\ depth["A"] = 0
    /\ started["A"]
    /\ ~started["B"]
    /\ hook = NoHook

--------------------------------------------------------------------------
(* C16.  The handler calls itself at most once. *)

\* C16: in every event the handler makes at most one call of itself, directly
\* or not, and only for an EXCEPTION event; that call is made with RETURN, so
\* it has the effect of one RETURN event on the depth and makes no call of
\* its own; the calls end without using up the room of the C stack, that is,
\* the handler terminates.
C16_NestingBound ==
    [][\A t \in Tracers :
          /\ last'.nested \in {0, 1}
          /\ last'.nested < MaxNesting
          /\ last'.nested = 1 => last'.op = "exception"
          /\ (last'.op = "exception" /\ last'.self = t) =>
                /\ last'.ret = 0
                /\ last'.nested = 0 => depth'[t] = depth[t]
                /\ last'.nested = 1 =>
                      depth'[t] = IF depth[t] >= 0 THEN depth[t] - 1 ELSE -1
                /\ tracenames' = tracenames
                /\ should_trace_cache' = should_trace_cache
                /\ data' = data]_vars

\* An EXCEPTION event of a pyexpat frame in which the handler called itself
\* once, with three frames on the stack: two are left.
C16_Witness ==
    /\ last.op = "exception"
    /\ last.nested = 1
    /\ last.d0 = 2
    /\ depth["A"] = 1
    /\ Len(frames["A"]) = 2

--------------------------------------------------------------------------
(* C17.  The entries of tracenames up to depth. *)

\* C17: in every reachable state each entry i of 0..depth holds what the CALL
\* event that raised the depth to i resolved for its filename, the string
\* should_trace returned or NULL; and when should_trace raised in that CALL,
\* the entry does not hold the string an earlier frame, since returned, left
\* at that depth, so that a LINE event there records nothing under it and a
\* RETURN event releases nothing.
C17_SlotsResolved ==
    \A t \in Tracers : \A i \in 0..depth[t] :
        LET f == frames[t][i + 1]
            decision == should_trace_cache[t][f]
        IN IF f # NoFile
           THEN tracenames[t][i] = IF decision.kind = "str" THEN decision ELSE NULL
           ELSE tracenames[t][i].kind # "str"

--------------------------------------------------------------------------
(* C18.  The file a hit is recorded under. *)

\* C18: under a host whose calls, lines and returns are well formed and which
\* hands the events to the Tracer only while it is in the trace slot, every
\* key (t, l) that a LINE event adds to data has for t the string that
\* should_trace returned for the file of the executing frame, also when
\* stop() and a later start() are called in frames of different depths.
C18_Attribution ==
    [][\A t \in Tracers :
          (last'.op = "line" /\ last'.self = t) =>
              \A key \in data'[t] \ data[t] :
                  key[1] = should_trace_cache[t][stack[Len(stack)]]]_vars

--------------------------------------------------------------------------
(* C19.  stop() and the handler of another Tracer. *)

\* C19: with two Tracers and one trace slot, neither stop() on a Tracer nor
\* a step of its Tracer_dealloc takes the other Tracer out of the trace slot:
\* the Tracer that is in the slot before is in it afterwards.
C19_OthersStayRegistered ==
    [][\A t \in Tracers : \A u \in Tracers \ {t} :
          ( /\ last'.self = t
            /\ last'.op \in {"stop", "dealloc"}
            /\ hook = u )
          => hook' = u]_vars

--------------------------------------------------------------------------
(* C20.  data only grows, by LINE events. *)

\* C20: no event removes a key from data; data changes only in a LINE event,
\* which adds at most one key; CALL, RETURN and EXCEPTION events, start() and
\* stop() leave it unchanged; and in every reachable state the first element
\* of every key of data is a string that should_trace_cache holds as the
\* decision of some filename.
C20_DataGrowth ==
    [][\A t \in Tracers :
          /\ data[t] \subseteq data'[t]
          /\ data'[t] # data[t] =>
                /\ last'.op = "line" /\ last'.self = t
                /\ Cardinality(data'[t] \ data[t]) = 1
          /\ last'.op \in {"call", "return", "exception", "start", "stop"} =>
                data' = data
          /\ \A key \in data'[t] :
                /\ key[1].kind = "str"
                /\ \E f \in Filenames : should_trace_cache'[t][f] = key[1]]_vars

==========================================================================
